---- MODULE Spec2Model ----
(***************************************************************************)
(* Model of the OONI fastpath pipeline (af/fastpath/fastpath/core.py):     *)
(* the blocking-change detector (detect_blocking_changes_f, reset_status,  *)
(* detect_blocking_changes) and the batching loop of core().               *)
(*                                                                         *)
(* Scores are Python floats in the source.  They are modelled as exact     *)
(* rationals: a value is a pair <<n, e>> standing for n / (100 * 2^e),     *)
(* kept normalised (n odd or e = 0).  Scores enter as hundredths <<s, 0>>  *)
(* and the only arithmetic of the detector, (old + new) / 2, stays inside  *)
(* this representation.  The limits 0.4 and 0.05 are 40 and 5 hundredths.  *)
(***************************************************************************)
EXTENDS Integers, Sequences, FiniteSets, TLC

VARIABLES
    status,     \* detector: dict key -> status value (core.py:629)
    means,      \* detector: dict key -> <<measurement_start_time, mean>> (core.py:627)
    changes,    \* value returned by the last detect_blocking_changes call
    detected,   \* log/metrics records of the current detect_blocking_changes call
    row,        \* number of rows scores.apply has handed to the callback in this call
    nrows,      \* rows applied since the start of the run
    last,       \* the most recent step of the detector and what it was given
    pc,             \* core(): position of the run
    measurement,    \* core(): the measurement the loop body holds
    measurement_cnt,\* core(): measurements pulled from the feed (core.py:607)
    summaries,      \* core(): the buffer of summaries (core.py:628)
    now,            \* the clock, time.time(), in seconds since core() started
    blk_t_thresh,   \* core(): the time of the next time-triggered flush (core.py:623)
    cleaned,        \* number of clean_caches() runs
    handed,         \* number of summaries handed to detect_blocking_changes so far
    lastflush,      \* size of the latest flush and the clock and threshold it saw
    stop_after,     \* conf.stop_after
    interact,       \* conf.devel and conf.interact
    cache,      \* the entries of conf.s3cachedir and conf.sshcachedir
    gauged,     \* the deleted_cache_file_age samples and "Deleting" records so far
    msm,        \* matcher and scorer: the measurement object handed to them
    outcome,    \* matcher and scorer: how the latest run on msm ended
    table,      \* db: the fastpath table, tid -> row
    notified,   \* db: the payloads delivered on the 'fastpath' channel, in order
    collisions, \* db: the counter report_id_input_db_collision
    dbcall      \* db: the latest upsert_summary call and how it ended

detVars == <<status, means, changes, detected, row, nrows, last>>
coreVars == <<pc, measurement, measurement_cnt, summaries, now, blk_t_thresh, cleaned,
              handed, lastflush, stop_after, interact>>
reapVars == <<cache, gauged>>
scoreVars == <<msm, outcome>>
dbVars == <<table, notified, collisions, dbcall>>
vars == <<status, means, changes, detected, row, nrows, last,
          pc, measurement, measurement_cnt, summaries, now, blk_t_thresh, cleaned,
          handed, lastflush, stop_after, interact,
          cache, gauged, msm, outcome, table, notified, collisions, dbcall>>

----------------------------------------------------------------------------
(* Bounds and input alphabets *)

MaxRows == 6

CCs == {"IT"}
TestNames == {"web_connectivity"}
InputA == [type |-> "str", value |-> "a"]
InputB == [type |-> "str", value |-> "b"]
ListInputs == {[type |-> "list", value |-> "a"]}
ScoreVals == {0, 40, 50, 80}
Times == {1, 2}

Sm(T, I, S) ==
    [measurement_start_time : T, cc : CCs, test_name : TestNames,
     input : I, blocking_general : {<<s, 0>> : s \in S}]

\* The rows handed to the detector: every score and timestamp for the first key, a
\* coarser alphabet for the second key, and one row whose input is a list.
Summaries ==
    Sm(Times, {InputA}, ScoreVals) \cup Sm({1}, {InputB}, {0, 80})
    \cup Sm({2}, ListInputs, {80})

----------------------------------------------------------------------------
(* Exact arithmetic on scores *)

Pow2(e) == 2 ^ e

RECURSIVE Norm(_, _)
Norm(n, e) == IF e > 0 /\ n % 2 = 0 THEN Norm(n \div 2, e - 1) ELSE <<n, e>>

\* (a + b) / 2
HalfSum_weighted(a, b) ==
    LET E == IF a[2] > b[2] THEN a[2] ELSE b[2]
    IN  Norm(3 * a[1] * Pow2(E - a[2]) + b[1] * Pow2(E - b[2]), E + 2)

HalfSum(a, b) ==
    LET E == IF a[2] > b[2] THEN a[2] ELSE b[2]
    IN  Norm(a[1] * Pow2(E - a[2]) + b[1] * Pow2(E - b[2]), E + 1)

\* a < c/100, a > c/100, a = c/100
Lt(a, c) == a[1] < c * Pow2(a[2])
Gt(a, c) == a[1] > c * Pow2(a[2])
Eq(a, c) == a[1] = c * Pow2(a[2])

----------------------------------------------------------------------------
(* detect_blocking_changes_f *)

upper_limit == 40
lower_limit == 5
clear == 0
blocked == 1
cleared_from_now == 2
blocked_from_now == 3

isinstance_str(x) == x.type = "str"

Key(v) == <<v.cc, v.test_name, v.input>>

\* d[k] = x
Put_all(d, k, x) == [j \in DOMAIN d \cup {k} |-> x]

Put(d, k, x) == (k :> x) @@ d

\* status of a key never seen before (core.py:262)
seed_status_ge(v) ==
    IF ~Lt(v.blocking_general, upper_limit) THEN blocked_from_now ELSE clear

seed_status(v) ==
    IF Gt(v.blocking_general, upper_limit) THEN blocked_from_now ELSE clear

\* status of a tracked key given its new mean (core.py:277-284)
next_status_le(s, new_val) ==
    IF s = blocked /\ ~Gt(new_val, lower_limit) THEN cleared_from_now
    ELSE IF s \in {clear, cleared_from_now} /\ ~Lt(new_val, upper_limit)
    THEN blocked_from_now
    ELSE s

next_status(s, new_val) ==
    IF s = blocked /\ Lt(new_val, lower_limit) THEN cleared_from_now
    ELSE IF s \in {clear, cleared_from_now} /\ Gt(new_val, upper_limit)
    THEN blocked_from_now
    ELSE s

\* the log.info / metrics.incr calls of a status change
Logged(k, s) ==
    IF s = blocked_from_now THEN {<<k, "blocked">>}
    ELSE IF s = cleared_from_now THEN {<<k, "cleared">>}
    ELSE {}

detect_blocking_changes_f_noskip(st, mn, v) ==
    LET k == Key(v) IN
    IF k \notin DOMAIN st
    THEN LET s == seed_status(v)
         IN  [status |-> Put(st, k, s),
              means |-> Put(mn, k, <<v.measurement_start_time, v.blocking_general>>),
              log |-> Logged(k, s)]
    ELSE LET old_val == mn[k][2]
             new_val == HalfSum(old_val, v.blocking_general)
             s == next_status(st[k], new_val)
         IN  [status |-> Put(st, k, s),
              means |-> Put(mn, k, <<v.measurement_start_time, new_val>>),
              log |-> IF s # st[k] THEN Logged(k, s) ELSE {}]

\* The callback applied to one row: the updated dicts and what it logged.
detect_blocking_changes_f_seed_no_mean(st, mn, v) ==
    LET k == Key(v) IN
    IF ~isinstance_str(v.input)
    THEN [status |-> st, means |-> mn, log |-> {}]
    ELSE IF k \notin DOMAIN st
    THEN LET s == seed_status(v)
         IN  [status |-> Put(st, k, s),
              means |-> mn,
              log |-> Logged(k, s)]
    ELSE LET old_val == mn[k][2]
             new_val == HalfSum(old_val, v.blocking_general)
             s == next_status(st[k], new_val)
         IN  [status |-> Put(st, k, s),
              means |-> Put(mn, k, <<v.measurement_start_time, new_val>>),
              log |-> IF s # st[k] THEN Logged(k, s) ELSE {}]

detect_blocking_changes_f(st, mn, v) ==
    LET k == Key(v) IN
    IF ~isinstance_str(v.input)
    THEN [status |-> st, means |-> mn, log |-> {}]
    ELSE IF k \notin DOMAIN st
    THEN LET s == seed_status(v)
         IN  [status |-> Put(st, k, s),
              means |-> Put(mn, k, <<v.measurement_start_time, v.blocking_general>>),
              log |-> Logged(k, s)]
    ELSE LET old_val == mn[k][2]
             new_val == HalfSum(old_val, v.blocking_general)
             s == next_status(st[k], new_val)
         IN  [status |-> Put(st, k, s),
              means |-> Put(mn, k, <<v.measurement_start_time, new_val>>),
              log |-> IF s # st[k] THEN Logged(k, s) ELSE {}]

(* reset_status *)
reset_status_keep_from_now(st) ==
    LET keep == {k \in DOMAIN st : st[k] \in {blocked, blocked_from_now}}
    IN  [k \in keep |-> st[k]]

reset_status_drop_cleared_only(st) ==
    LET keep == {k \in DOMAIN st : st[k] # cleared_from_now}
    IN  [k \in keep |-> IF st[k] = blocked_from_now THEN blocked ELSE st[k]]

reset_status_clear_kept(st) ==
    [k \in DOMAIN st |-> IF st[k] \in {blocked, blocked_from_now} THEN blocked ELSE clear]

reset_status(st) ==
    LET keep == {k \in DOMAIN st : st[k] \in {blocked, blocked_from_now}}
    IN  [k \in keep |-> blocked]

\* The dict comprehension of detect_blocking_changes (core.py:323-325)
transient_all(st) == st

transient_blocked_only(st) ==
    LET ks == {k \in DOMAIN st : st[k] = blocked_from_now}
    IN  [k \in ks |-> st[k]]

transient(st) ==
    LET ks == {k \in DOMAIN st : st[k] \in {cleared_from_now, blocked_from_now}}
    IN  [k \in ks |-> st[k]]

----------------------------------------------------------------------------
(* The state of the detector at the start of core() *)

EmptyDict == [k \in {} |-> 0]

NoSummary ==
    [measurement_start_time |-> 0, cc |-> "", test_name |-> "",
     input |-> [type |-> "none", value |-> ""], blocking_general |-> <<0, 0>>]

\* What the callback was given: the row, and the entries of its key before the call
Given(op, v) ==
    LET k == Key(v) IN
    [op |-> op, v |-> v,
     seen |-> k \in DOMAIN status,
     old_status |-> IF k \in DOMAIN status THEN status[k] ELSE -1,
     had_mean |-> k \in DOMAIN means,
     old_mean |-> IF k \in DOMAIN means THEN means[k] ELSE <<0, <<0, 0>>>>]

DetInit ==
    /\ status = EmptyDict
    /\ means = EmptyDict
    /\ changes = EmptyDict
    /\ detected = {}
    /\ row = 0
    /\ nrows = 0
    /\ last = [op |-> "init", v |-> NoSummary, seen |-> FALSE, old_status |-> -1,
               had_mean |-> FALSE, old_mean |-> <<0, <<0, 0>>>>]

----------------------------------------------------------------------------
(* detect_blocking_changes on a whole buffer *)

ApplyRow(acc, v) ==
    LET r == detect_blocking_changes_f(acc.status, acc.means, v)
    IN  [status |-> r.status, means |-> r.means,
         log |-> IF r.log = {} THEN acc.log ELSE acc.log \cup r.log]

\* The buffer `summaries` is a Python list.  It is kept run-length encoded: the run
\* <<su, n>> stands for n consecutive equal summaries, so that a buffer of
\* blk_size_threshold summaries stays a small value.  BufAppend, BufLen and ApplyRuns give
\* list.append, len and the row-by-row iteration of the list they encode.
BufAppend(buf, su) ==
    IF buf # <<>> /\ buf[Len(buf)][1] = su
    THEN [buf EXCEPT ![Len(buf)] = <<su, @[2] + 1>>]
    ELSE Append(buf, <<su, 1>>)

RECURSIVE BufLenFrom(_, _)
BufLenFrom(buf, i) == IF i > Len(buf) THEN 0 ELSE buf[i][2] + BufLenFrom(buf, i + 1)
BufLen(buf) == BufLenFrom(buf, 1)

\* the callback applied to n consecutive equal rows: the first half of the run, then
\* the second half from the state the first half left (the test on done.status makes
\* the first half be computed before the second starts)
RECURSIVE ApplyRun(_, _, _)
ApplyRun(acc, v, n) ==
    IF n = 0 THEN acc
    ELSE IF n = 1 THEN ApplyRow(acc, v)
    ELSE LET done == ApplyRun(acc, v, n \div 2)
         IN  IF DOMAIN done.status # {} \/ ~isinstance_str(v.input)
             THEN ApplyRun(done, v, n - (n \div 2))
             ELSE done

\* scores.apply(..., axis=1): the rows of the buffer, in index order
RECURSIVE ApplyRuns(_, _, _)
ApplyRuns(acc, runs, i) ==
    IF i > Len(runs) THEN acc
    ELSE ApplyRuns(ApplyRun(acc, runs[i][1], runs[i][2]), runs, i + 1)

\* probe_cc is renamed cc (core.py:308)
AsRow(su) ==
    [measurement_start_time |-> su.measurement_start_time, cc |-> su.probe_cc,
     test_name |-> su.test_name, input |-> su.input,
     blocking_general |-> su.blocking_general]

detect_blocking_changes(buf, st, mn) ==
    LET scores == [i \in 1..Len(buf) |-> <<AsRow(buf[i][1]), buf[i][2]>>]
        a == ApplyRuns([status |-> st, means |-> mn, log |-> {}], scores, 1)
    IN  [changes |-> transient(a.status), status |-> reset_status(a.status),
         means |-> a.means, log |-> a.log]

----------------------------------------------------------------------------
(* match_fingerprints.  A string is a sequence of one-character strings. *)

LowerChar(c) == CASE c = "S" -> "s" [] c = "V" -> "v" [] OTHER -> c
Lower(str) == [i \in 1..Len(str) |-> LowerChar(str[i])]

\* pat in text
Contains(text, pat) ==
    \E i \in 1..(Len(text) + 1) :
        /\ i + Len(pat) - 1 <= Len(text)
        /\ SubSeq(text, i, i + Len(pat) - 1) = pat

\* text.startswith(pat)
StartsWith(text, pat) == Len(pat) <= Len(text) /\ SubSeq(text, 1, Len(pat)) = pat

\* the catalog after setup_fingerprints: cc -> fingerprint type -> list
fingerprints ==
    "IT" :> [body_match |-> << [body_match |-> <<"b", "k">>, locality |-> "country"],
                               [body_match |-> <<"g">>, locality |-> "general"],
                               [body_match |-> <<"o">>, locality |-> "global"] >>,
             header_full |-> << [header_name |-> <<"s">>, header_full |-> <<"f", "w">>,
                                 locality |-> "isp"] >>,
             header_prefix |-> << [header_name |-> <<"v">>, header_prefix |-> <<"f">>,
                                   locality |-> "local"] >>]

\* {h.lower(): v for h, v in headers.items()}: the indexes of the items that survive
LoweredKeep(items) ==
    {i \in 1..Len(items) :
        \A j \in (i + 1)..Len(items) : Lower(items[j][1]) # Lower(items[i][1])}

\* name in headers and headers[name] == fp["header_full"]
FullMatch(items, fp) ==
    \E i \in LoweredKeep(items) :
        Lower(items[i][1]) = fp.header_name /\ items[i][2] = fp.header_full

\* name in headers and headers[name].startswith(prefix)
PrefixMatch(items, fp) ==
    \E i \in LoweredKeep(items) :
        Lower(items[i][1]) = fp.header_name /\ StartsWith(items[i][2], fp.header_prefix)

\* the fingerprints one response matches, in the order they are appended
ResponseMatches(r, cat) ==
    LET bm == IF r.body.state = "str"
              THEN SelectSeq(cat.body_match, LAMBDA fp : Contains(r.body.text, fp.body_match))
              ELSE <<>>
    IN  IF r.headers.state # "dict" \/ r.headers.items = <<>>
        THEN bm
        ELSE bm \o SelectSeq(cat.header_full, LAMBDA fp : FullMatch(r.headers.items, fp))
                \o SelectSeq(cat.header_prefix, LAMBDA fp : PrefixMatch(r.headers.items, fp))

\* r["body"] raises KeyError when the response has no body field (core.py:523)
ResponseRaises(r) == r.body.state = "missing"

RECURSIVE MatchRequests(_, _, _)
MatchRequests(reqs, i, cat) ==
    IF i > Len(reqs) THEN [raised |-> FALSE, matches |-> <<>>]
    ELSE IF reqs[i].none THEN MatchRequests(reqs, i + 1, cat)
    ELSE IF ResponseRaises(reqs[i]) THEN [raised |-> TRUE, matches |-> <<>>]
    ELSE LET rest == MatchRequests(reqs, i + 1, cat)
         IN  [raised |-> rest.raised,
              matches |-> IF rest.raised THEN <<>>
                          ELSE ResponseMatches(reqs[i], cat) \o rest.matches]

match_fingerprints(m) ==
    IF m.probe_cc \notin DOMAIN fingerprints
    THEN [raised |-> FALSE, matches |-> <<>>]
    ELSE MatchRequests(m.requests, 1, fingerprints[m.probe_cc])

----------------------------------------------------------------------------
(* score_measurement and extract_summary.  Buckets are in hundredths. *)

LOCALITY_VALS == <<"general", "global", "country", "isp", "local">>

Localities == {LOCALITY_VALS[i] : i \in 1..Len(LOCALITY_VALS)}

Count(matches, l) == Len(SelectSeq(matches, LAMBDA fp : fp.locality = l))

\* The fields blocking_<l> of a measurement.  A measurement from the feed has none; that
\* is written as all 0: score_measurement assigns them before it reads them.
NoBuckets == [l \in Localities |-> 0]

\* for l in LOCALITY_VALS: msm[f"blocking_{l}"] = 0.0
reset_buckets_keep(prev) == prev

reset_buckets(prev) == [l \in Localities |-> 0]

\* for m in matches: msm["blocking_" + m["locality"]] += 1.0
add_matches(b, matches) == [l \in Localities |-> b[l] + 100 * Count(matches, l)]

\* msm.get("title_match", True) is False
add_title(b, m) ==
    IF m.title_match = "False" THEN [b EXCEPT !["general"] = @ + 50] ELSE b

\* the final sum into blocking_general
fold_no_isp(b) == [b EXCEPT !["general"] = @ + b["country"] + b["global"] + b["local"]]

fold(b) ==
    [b EXCEPT !["general"] = @ + b["country"] + b["global"] + b["isp"] + b["local"]]

\* score_measurement on a measurement whose blocking fields are prev.  float has no
\* .abs(): the body_proportion line (core.py:578) raises AttributeError whenever the
\* key is present, leaving the fields as they are at that line.
score_buckets(prev, m, matches) ==
    LET b == add_title(add_matches(reset_buckets(prev), matches), m)
    IN  IF m.body_proportion.present
        THEN [raised |-> TRUE, prefold |-> b, blocking |-> b]
        ELSE [raised |-> FALSE, prefold |-> b, blocking |-> fold(b)]

score_measurement(m, matches) == score_buckets(NoBuckets, m, matches)

extract_summary(m, blocking) ==
    [measurement_start_time |-> m.measurement_start_time, probe_cc |-> m.probe_cc,
     probe_asn |-> m.probe_asn, test_name |-> m.test_name, input |-> m.input,
     blocking_general |-> <<blocking["general"], 0>>]

----------------------------------------------------------------------------
(* process_measurements: the check for unexpected columns.  A column name is a sequence
   of tokens, so that startswith and endswith look at its first and last token. *)

expected_colnames ==
    {<<n>> : n \in {
        "accessible", "advanced", "agent", "annotations", "automated_testing",
        "blocking", "body_length_match", "body_proportion", "blocking_country",
        "blocking_general", "blocking_global", "blocking_isp", "blocking_local",
        "client_resolver", "control", "control_failure", "data_format_version",
        "dns_consistency", "dns_experiment_failure", "engine_name", "engine_version",
        "engine_version_full", "failure", "failure_asn_lookup", "failure_cc_lookup",
        "failure_ip_lookup", "failure_network_name_lookup", "flavor", "headers_match",
        "http_experiment_failure", "id", "input", "input_hashes",
        "measurement_start_time", "network_type", "options", "origin", "phase_result",
        "platform", "probe_asn", "probe_cc", "probe_city", "probe_ip", "queries",
        "receiver_data", "registration_server_failure", "registration_server_status",
        "report_id", "requests", "retries", "sender_data", "server_address",
        "server_port", "server_version", "simple", "socksproxy", "software_name",
        "software_version", "status_code_match", "summary_data", "tcp_connect",
        "telegram_http_blocking", "telegram_tcp_blocking", "telegram_web_failure",
        "telegram_web_status", "test_c2s", "test_helpers", "test_name", "test_runtime",
        "test_s2c", "test_start_time", "test_suite", "test_version", "test_keys",
        "title_match", "web_connectivity", "whatsapp_endpoints_blocked",
        "whatsapp_endpoints_dns_inconsistent", "whatsapp_endpoints_status",
        "whatsapp_web_failure", "whatsapp_web_status"}}

\* the keys of a measurement: the fields every measurement carries, and its other fields
Columns(m) ==
    {<<"measurement_start_time">>, <<"probe_cc">>, <<"probe_asn">>, <<"test_name">>,
     <<"input">>, <<"test_keys">>} \cup m.extra

\* found_colnames - expected_colnames, less the req_..._body and req_..._headers columns
unexpected(found_colnames) ==
    {c \in found_colnames \ expected_colnames :
        ~(c[1] = "req_" /\ c[Len(c)] \in {"_body", "_headers"})}

\* process_measurements raises RuntimeError (core.py:365-367)
process_measurements_raises(m) == unexpected(Columns(m)) # {}

----------------------------------------------------------------------------
(* clean_caches.  An entry of a cache directory has a kind and a last-access time, in
   seconds on the clock of the run (negative: before core() started). *)

threshold == 3600 * 24 * 3

CacheNames == {"s3cachedir/a", "s3cachedir/b", "sshcachedir/a"}
ATimes == {-100, -259200, -259201}
Entries == [kind : {"file", "dir", "fifo"}, st_atime : ATimes, exists : {TRUE}]
Caches == [CacheNames -> Entries]

is_file(f) == f.exists /\ f.kind = "file"

\* The pass over both directories: the entries older than the threshold are logged and
\* gauged; the deletion itself is a TODO (core.py:144), every entry stays.
clean_caches(c, t) ==
    LET old == {n \in DOMAIN c : is_file(c[n]) /\ t - c[n].st_atime > threshold}
    IN  [cache |-> c, gauged |-> {<<n, t - c[n].st_atime>> : n \in old}]

\* the cache directories of the runs that exercise the loop
SomeCache ==
    [n \in CacheNames |->
        [kind |-> IF n = "s3cachedir/b" THEN "dir" ELSE "file",
         st_atime |-> IF n = "s3cachedir/a" THEN -259201 ELSE -100,
         exists |-> TRUE]]

ReapInit == cache = SomeCache /\ gauged = {}

----------------------------------------------------------------------------
(* core(): the batching loop *)

MaxFeed == 1001
MaxVaried == 2
MaxTime == 2
MaxSlow == 2

blk_t_interval == 1
blk_size_threshold == 1000

NoBody == [state |-> "none", text |-> <<>>]
NoHeaders == [state |-> "missing", items |-> <<>>]
NoProportion == [present |-> FALSE, val |-> 0]

Msm(cc, inp, reqs) ==
    [measurement_start_time |-> 1, probe_cc |-> cc, probe_asn |-> "AS1",
     test_name |-> "web_connectivity", input |-> inp, requests |-> reqs,
     title_match |-> "absent", body_proportion |-> NoProportion, extra |-> {}]

NoMeasurement == Msm("", [type |-> "none", value |-> ""], <<>>)

\* a blockpage for the first key, a measurement whose input is a list, and a measurement
\* of the second key that matches nothing
BlockedA ==
    Msm("IT", InputA,
        << [none |-> FALSE, body |-> [state |-> "str", text |-> <<"a", "b", "k">>],
            headers |-> [state |-> "dict", items |-> << <<<<"S">>, <<"f", "w">>>> >>]] >>)
ListMsm == Msm("IT", [type |-> "list", value |-> "a"], <<>>)
BenignB ==
    Msm("IT", InputB, << [none |-> FALSE, body |-> NoBody, headers |-> NoHeaders] >>)

\* a measurement with a field that is not an expected column, one with an unrolled
\* request column, and one whose response has no body field
DriftMsm == [BenignB EXCEPT !.extra = {<<"schema_drift">>}]
UnrolledMsm == [BenignB EXCEPT !.extra = {<<"req_", "0", "_body">>}]
NoBodyFieldMsm ==
    Msm("IT", InputB,
        << [none |-> FALSE, body |-> [state |-> "missing", text |-> <<>>],
            headers |-> NoHeaders] >>)

\* what the feed may yield as its i-th measurement
FeedSet(i) ==
    IF i = 1 THEN {BlockedA, ListMsm, BenignB, DriftMsm, UnrolledMsm, NoBodyFieldMsm}
    ELSE IF i <= MaxVaried THEN {BlockedA, BenignB}
    ELSE {BenignB}

StopAfterVals == {[set |-> FALSE, n |-> 0], [set |-> TRUE, n |-> 2]}

\* the matcher and scorer, run on their own, and the database are not in use
NoOutcome ==
    [n |-> 0, match_raised |-> FALSE, score_raised |-> FALSE, matches |-> <<>>,
     prefold |-> NoBuckets, blocking |-> NoBuckets,
     prev |-> [match_raised |-> FALSE, score_raised |-> FALSE, blocking |-> NoBuckets]]
NoCall == [op |-> "none", calls |-> 0]
ScoreIdle ==
    /\ msm = [m |-> NoMeasurement, blocking |-> NoBuckets, scored |-> FALSE]
    /\ outcome = NoOutcome
DbIdle == table = EmptyDict /\ notified = <<>> /\ collisions = 0 /\ dbcall = NoCall

CoreInit ==
    /\ pc = "fetch"
    /\ measurement = NoMeasurement
    /\ measurement_cnt = 0
    /\ summaries = <<>>
    /\ now = 0
    /\ blk_t_thresh = blk_t_interval
    /\ cleaned = 0
    /\ handed = 0
    /\ lastflush = [len |-> 0, t |-> 0, thresh |-> 0]
    /\ stop_after \in StopAfterVals
    /\ interact \in BOOLEAN

\* the guard of `continue` (core.py:640)
must_continue_no_clock(len, t, thresh) == len < blk_size_threshold

must_continue_le(len, t, thresh) == len <= blk_size_threshold /\ t < thresh

must_continue(len, t, thresh) == len < blk_size_threshold /\ t < thresh

\* summaries = [] after the buffer was handed over (core.py:646)
flushed_keep_tail(buf) == Tail(buf)

flushed(buf) == <<>>

\* the clock may move on while no burst is filling the buffer
CanTick == now < MaxTime /\ BufLen(summaries) <= MaxSlow

Tick ==
    /\ pc \in {"fetch", "process"}
    /\ CanTick
    /\ now' = now + 1
    /\ UNCHANGED <<pc, measurement, measurement_cnt, summaries, blk_t_thresh, cleaned,
                   handed, lastflush, stop_after, interact>>
    /\ UNCHANGED <<detVars, reapVars, scoreVars, dbVars>>

\* the generator yields the next measurement; measurement_cnt += 1 (core.py:631-632)
Fetch ==
    /\ pc = "fetch"
    /\ measurement_cnt < MaxFeed
    /\ \E m \in FeedSet(measurement_cnt + 1) : measurement' = m
    /\ measurement_cnt' = measurement_cnt + 1
    /\ pc' = "process"
    /\ UNCHANGED <<summaries, now, blk_t_thresh, cleaned, handed, lastflush,
                   stop_after, interact>>
    /\ UNCHANGED <<detVars, reapVars, scoreVars, dbVars>>

\* the generator is exhausted: the loop ends
Exhausted ==
    /\ pc = "fetch"
    /\ pc' = "reap"
    /\ UNCHANGED <<measurement, measurement_cnt, summaries, now, blk_t_thresh, cleaned,
                   handed, lastflush, stop_after, interact>>
    /\ UNCHANGED <<detVars, reapVars, scoreVars, dbVars>>

FlushGiven ==
    [op |-> "flush", v |-> NoSummary, seen |-> FALSE, old_status |-> -1,
     had_mean |-> FALSE, old_mean |-> <<0, <<0, 0>>>>]

\* the loop body (core.py:633-666)
Process ==
    /\ pc = "process"
    /\ LET mr == match_fingerprints(measurement)
           sc == score_measurement(measurement, mr.matches)
           buf == BufAppend(summaries, extract_summary(measurement, sc.blocking))
       IN  IF mr.raised \/ sc.raised
           THEN /\ pc' = "crashed"
                /\ UNCHANGED <<measurement, summaries, now, blk_t_thresh, handed, lastflush>>
                /\ UNCHANGED detVars
           ELSE IF must_continue(BufLen(buf), now, blk_t_thresh)
           THEN /\ pc' = "fetch"
                /\ measurement' = NoMeasurement
                /\ summaries' = buf
                /\ UNCHANGED <<now, blk_t_thresh, handed, lastflush>>
                /\ UNCHANGED detVars
           ELSE LET r == detect_blocking_changes(buf, status, means) IN
                /\ \E t2 \in {now} \cup (IF CanTick THEN {now + 1} ELSE {}) :
                      /\ now' = t2
                      /\ blk_t_thresh' = t2 + blk_t_interval
                /\ status' = r.status
                /\ means' = r.means
                /\ changes' = r.changes
                /\ detected' = r.log
                /\ last' = FlushGiven
                /\ UNCHANGED <<row, nrows>>
                /\ measurement' = NoMeasurement
                /\ summaries' = flushed(buf)
                /\ handed' = handed + BufLen(buf)
                /\ lastflush' = [len |-> BufLen(buf), t |-> now, thresh |-> blk_t_thresh]
                /\ pc' = IF stop_after.set /\ measurement_cnt >= stop_after.n THEN "reap"
                         ELSE IF interact THEN "reap"
                         ELSE "fetch"
    /\ UNCHANGED <<measurement_cnt, cleaned, stop_after, interact>>
    /\ UNCHANGED <<reapVars, scoreVars, dbVars>>

\* clean_caches() after the loop (core.py:668)
CleanCaches ==
    /\ pc = "reap"
    /\ cleaned' = cleaned + 1
    /\ cache' = clean_caches(cache, now).cache
    /\ gauged' = gauged \cup clean_caches(cache, now).gauged
    /\ pc' = "done"
    /\ UNCHANGED <<measurement, measurement_cnt, summaries, now, blk_t_thresh, handed,
                   lastflush, stop_after, interact>>
    /\ UNCHANGED <<detVars, scoreVars, dbVars>>

\* An external cancellation (SIGINT raising KeyboardInterrupt, SIGTERM): core() installs
\* no handler and has no try/finally, so the run ends where it stands.
Cancel ==
    /\ pc \in {"fetch", "process", "reap"}
    /\ pc' = "killed"
    /\ UNCHANGED <<measurement, measurement_cnt, summaries, now, blk_t_thresh, cleaned,
                   handed, lastflush, stop_after, interact>>
    /\ UNCHANGED <<detVars, reapVars, scoreVars, dbVars>>

NextCore == Tick \/ Fetch \/ Exhausted \/ Process \/ CleanCaches \/ Cancel

InitCore == DetInit /\ CoreInit /\ ReapInit /\ ScoreIdle /\ DbIdle

SpecCore == InitCore /\ [][NextCore]_vars

\* core() on an empty feed, over every content of the cache directories
InitReaper == DetInit /\ CoreInit /\ cache \in Caches /\ gauged = {} /\ ScoreIdle /\ DbIdle

NextReaper == Tick \/ Exhausted \/ CleanCaches

SpecReaper == InitReaper /\ [][NextReaper]_vars

----------------------------------------------------------------------------
(* match_fingerprints followed by score_measurement, on one measurement object *)

MaxReqs == 2
MaxRuns == 2

Bodies ==
    {[state |-> "missing", text |-> <<>>], NoBody, [state |-> "str", text |-> <<>>],
     [state |-> "str", text |-> <<"a", "b", "k">>], [state |-> "str", text |-> <<"g", "o">>]}

Hdr(name, val) == [state |-> "dict", items |-> << <<name, val>> >>]

HeaderSets ==
    {NoHeaders, [state |-> "none", items |-> <<>>], [state |-> "dict", items |-> <<>>],
     Hdr(<<"S">>, <<"f", "w">>), Hdr(<<"V">>, <<"f", "x">>), Hdr(<<"s">>, <<"x">>)}

Responses ==
    {[none |-> TRUE, body |-> NoBody, headers |-> NoHeaders]}
        \cup [none : {FALSE}, body : Bodies, headers : HeaderSets]

RequestLists == UNION {[1..n -> Responses] : n \in 0..MaxReqs}

Proportions == {NoProportion, [present |-> TRUE, val |-> 50], [present |-> TRUE, val |-> 150]}

\* every list of responses with no feature signal, and every combination of the feature
\* signals and the country with at most one response
ScoreInputs ==
    {Msm("IT", InputA, reqs) : reqs \in RequestLists}
        \cup {[Msm(cc, InputA, reqs) EXCEPT !.title_match = t, !.body_proportion = p] :
                cc \in {"IT", "XX"}, t \in {"absent", "True", "False", "None"},
                p \in Proportions,
                reqs \in {<<>>, << [none |-> FALSE, body |-> [state |-> "str", text |-> <<"g", "o">>],
                                    headers |-> Hdr(<<"S">>, <<"f", "w">>)] >>}}

\* matches = match_fingerprints(measurement); score_measurement(measurement, matches)
\* (core.py:634-635)
MatchAndScore ==
    /\ outcome.n < MaxRuns
    /\ LET mr == match_fingerprints(msm.m)
           sc == score_buckets(msm.blocking, msm.m, mr.matches)
           before == [match_raised |-> outcome.match_raised,
                      score_raised |-> outcome.score_raised, blocking |-> outcome.blocking]
       IN  IF mr.raised
           THEN /\ outcome' = [n |-> outcome.n + 1, match_raised |-> TRUE,
                               score_raised |-> FALSE, matches |-> <<>>,
                               prefold |-> msm.blocking, blocking |-> msm.blocking,
                               prev |-> before]
                /\ msm' = msm
           ELSE /\ outcome' = [n |-> outcome.n + 1, match_raised |-> FALSE,
                               score_raised |-> sc.raised, matches |-> mr.matches,
                               prefold |-> sc.prefold, blocking |-> sc.blocking,
                               prev |-> before]
                /\ msm' = [msm EXCEPT !.blocking = sc.blocking, !.scored = TRUE]
    /\ UNCHANGED <<detVars, coreVars, reapVars, dbVars>>

InitScore ==
    /\ DetInit /\ CoreInit /\ ~stop_after.set /\ ~interact /\ ReapInit /\ DbIdle
    /\ msm \in {[m |-> x, blocking |-> NoBuckets, scored |-> FALSE] : x \in ScoreInputs}
    /\ outcome = NoOutcome

NextScore == MatchAndScore

SpecScore == InitScore /\ [][NextScore]_vars

----------------------------------------------------------------------------
(* db.upsert_summary.  The table fastpath has the primary key tid (fastpath_pkey).  A
   text is a sequence of tokens: the characters of the data, one token each, and the
   punctuation of JSON. *)

MaxCalls == 3

Tids == {"t1", "t2"}
DbInputs == {<<"a">>, <<"a", "'">>, <<"'", "'">>}
DbScores == {"0.0", "1.0"}

\* asn = int(msm["probe_asn"][2:]) with probe_asn "AS1"
DbRow(inp, sc) ==
    [report_id |-> "r", input |-> inp, probe_cc |-> "IT", probe_asn |-> 1,
     test_name |-> "web_connectivity", filename |-> "f", scores |-> sc]

\* ujson.dumps of the notification: the columns of msm, trivial_id and scores.  A single
\* quote in a string is written as it is.
dumps(r, tid) ==
    <<"{", "dq", "input", "dq", ":", "dq">> \o r.input
        \o <<"dq", ",", "dq", "trivial_id", "dq", ":", "dq", tid, "dq", ",",
             "dq", "scores", "dq", ":", r.scores, "}">>

\* What the server reads of a text placed between single quotes in a statement: two
\* single quotes are one, a lone single quote ends the literal, and the text that follows
\* it is a syntax error.
RECURSIVE SqlLiteral(_, _)
SqlLiteral(text, i) ==
    IF i > Len(text) THEN [ok |-> TRUE, text |-> <<>>]
    ELSE IF text[i] # "'"
    THEN LET rest == SqlLiteral(text, i + 1)
         IN  [ok |-> rest.ok, text |-> IF rest.ok THEN <<text[i]>> \o rest.text ELSE <<>>]
    ELSE IF i < Len(text) /\ text[i + 1] = "'"
    THEN LET rest == SqlLiteral(text, i + 2)
         IN  [ok |-> rest.ok, text |-> IF rest.ok THEN <<"'">> \o rest.text ELSE <<>>]
    ELSE [ok |-> FALSE, text |-> <<>>]

\* cur.rowcount after INSERT ... ON CONFLICT ON CONSTRAINT fastpath_pkey DO NOTHING / UPDATE
rowcount(tbl, tid, update) == IF tid \in DOMAIN tbl /\ ~update THEN 0 ELSE 1

\* the call: the table after it, the increment of the collision counter, the payloads
\* delivered and whether the call raised
upsert_summary(tbl, tid, r, update) ==
    LET n == rowcount(tbl, tid, update)
        written == IF tid \notin DOMAIN tbl \/ update THEN Put(tbl, tid, r) ELSE tbl
        lit == SqlLiteral(dumps(r, tid), 1)
    IN  IF n = 0 /\ ~update
        THEN [table |-> written, incr |-> 1, payloads |-> <<>>, raised |-> FALSE]
        ELSE IF lit.ok
        THEN [table |-> written, incr |-> 0, payloads |-> <<lit.text>>, raised |-> FALSE]
        ELSE [table |-> written, incr |-> 0, payloads |-> <<>>, raised |-> TRUE]

Upsert(tid, r, update) ==
    /\ dbcall.calls < MaxCalls
    /\ LET res == upsert_summary(table, tid, r, update) IN
        /\ table' = res.table
        /\ collisions' = collisions + res.incr
        /\ notified' = notified \o res.payloads
        /\ dbcall' = [op |-> "upsert", tid |-> tid, row |-> r, update |-> update,
                      existed |-> tid \in DOMAIN table,
                      old |-> IF tid \in DOMAIN table THEN table[tid] ELSE r,
                      collisions |-> collisions, notified |-> notified,
                      raised |-> res.raised,
                      calls |-> dbcall.calls + 1]
    /\ UNCHANGED <<detVars, coreVars, reapVars, scoreVars>>

InitDb ==
    /\ DetInit /\ CoreInit /\ ~stop_after.set /\ ~interact /\ ReapInit /\ ScoreIdle
    /\ DbIdle

NextDb ==
    \E tid \in Tids, inp \in DbInputs, sc \in DbScores, update \in BOOLEAN :
        Upsert(tid, DbRow(inp, sc), update)

SpecDb == InitDb /\ [][NextDb]_vars

----------------------------------------------------------------------------
(* The detector, one row of scores.apply at a time *)

\* scores.apply(lambda b: detect_blocking_changes_f(status, means, b), axis=1):
\* the next row of the buffer
DetectRow(v) ==
    /\ nrows < MaxRows
    /\ LET r == detect_blocking_changes_f(status, means, v) IN
        /\ status' = r.status
        /\ means' = r.means
        /\ detected' = (IF row = 0 THEN {} ELSE detected) \cup r.log
    /\ row' = row + 1
    /\ nrows' = nrows + 1
    /\ last' = Given("f", v)
    /\ UNCHANGED changes
    /\ UNCHANGED <<coreVars, reapVars, scoreVars, dbVars>>

\* the end of detect_blocking_changes: collect the changes, reset, return
DetectReturn ==
    /\ row > 0
    /\ changes' = transient(status)
    /\ status' = reset_status(status)
    /\ row' = 0
    /\ last' = Given("return", NoSummary)
    /\ UNCHANGED <<means, detected, nrows>>
    /\ UNCHANGED <<coreVars, reapVars, scoreVars, dbVars>>

\* The detector is driven with rows of its own alphabet; core() stands at its start.
Init == DetInit /\ CoreInit /\ ~stop_after.set /\ ~interact /\ ReapInit /\ ScoreIdle /\ DbIdle

Next ==
    \/ \E v \in Summaries : DetectRow(v)
    \/ DetectReturn

Spec == Init /\ [][Next]_vars

----------------------------------------------------------------------------
(* Properties of the detector *)

\* The step just taken handed a row to the callback / ended the call
RowStep == last'.op = "f" /\ nrows' = nrows + 1
ReturnStep == last'.op = "return" /\ row > 0 /\ row' = 0

StrKeys == {<<c, t, i>> : c \in CCs, t \in TestNames, i \in {InputA, InputB}}
AllKeys == StrKeys \cup {<<c, t, i>> : c \in CCs, t \in TestNames, i \in ListInputs}

\* The callback has just run on a row with a string input whose key was / was not tracked
UpdatedSeen == last.op = "f" /\ last.v.input.type = "str" /\ last.seen
SeededUnseen == last.op = "f" /\ last.v.input.type = "str" /\ ~last.seen

\* (old mean + score) / 2 for the row just applied
NewMean == HalfSum(last.old_mean[2], last.v.blocking_general)

\* C1: after an update of an already tracked key, with new_mean = (old_mean + score) / 2:
\* Blocked and new_mean < 0.05 gives ClearedFromNow; Clear or ClearedFromNow and
\* new_mean > 0.4 gives BlockedFromNow; in every other case (new_mean exactly at a limit,
\* Blocked with a high mean, BlockedFromNow with any mean) the status is unchanged.
C1_SeenKeyTransitions ==
    UpdatedSeen =>
        LET k == Key(last.v) IN
        /\ k \in DOMAIN status
        /\ status[k] =
             IF last.old_status = 1 /\ Lt(NewMean, 5) THEN 2
             ELSE IF last.old_status \in {0, 2} /\ Gt(NewMean, 40) THEN 3
             ELSE last.old_status

C1_Witness ==
    /\ UpdatedSeen
    /\ last.old_status = 1
    /\ Lt(NewMean, 5)
    /\ status[Key(last.v)] = 2

\* C2: a row whose key is not in the status map stores mean = score and the row's
\* timestamp, and sets BlockedFromNow iff score > 0.4, Clear otherwise; a key that is
\* Clear when the call collects its changes is not among the returned events.
C2_UnseenKeySeed ==
    /\ [](SeededUnseen =>
            LET k == Key(last.v) IN
            /\ k \in DOMAIN status /\ k \in DOMAIN means
            /\ means[k] = <<last.v.measurement_start_time, last.v.blocking_general>>
            /\ status[k] = IF Gt(last.v.blocking_general, 40) THEN 3 ELSE 0)
    /\ [][ReturnStep =>
            \A k \in DOMAIN status : status[k] = 0 => k \notin DOMAIN changes']_vars

C2_Witness ==
    /\ SeededUnseen
    /\ Eq(last.v.blocking_general, 40)
    /\ status[Key(last.v)] = 0
    /\ means[Key(last.v)] = <<last.v.measurement_start_time, <<40, 0>>>>

\* C3: the value returned by a call is exactly the mapping of the keys whose status,
\* after the rows were applied and before the reset, is ClearedFromNow or BlockedFromNow,
\* to that status; no Clear or Blocked key is ever among the events.
C3_ReturnedChanges ==
    /\ [][ReturnStep =>
            /\ DOMAIN changes' = {k \in DOMAIN status : status[k] \in {2, 3}}
            /\ \A k \in DOMAIN changes' : changes'[k] = status[k]]_vars
    /\ [](\A k \in DOMAIN changes : changes[k] \in {2, 3})

C3_Witness ==
    /\ last.op = "return"
    /\ \E k1, k2 \in StrKeys : /\ k1 # k2
                               /\ k1 \in DOMAIN changes /\ changes[k1] = 3
                               /\ k2 \notin DOMAIN changes /\ k2 \in DOMAIN status

StatusOf(what) == IF what = "blocked" THEN 3 ELSE 2

\* C4 as stated: every change into ClearedFromNow or BlockedFromNow made during a call
\* is returned by that call with that status, and nothing else is returned.
C4_EveryChangeReported ==
    [][ReturnStep =>
        /\ \A d \in detected : d[1] \in DOMAIN changes' /\ changes'[d[1]] = StatusOf(d[2])
        /\ \A k \in DOMAIN changes' : \E d \in detected : d[1] = k]_vars

\* C4 (amended): every change into BlockedFromNow made during a call is returned by that
\* call as BlockedFromNow; a change into ClearedFromNow is returned as ClearedFromNow
\* unless a later row of the same call changed the key into BlockedFromNow, and then only
\* BlockedFromNow is returned; a call returns no key that had no change during that call.
C4_LastChangeReported ==
    [][ReturnStep =>
        /\ \A d \in detected :
              /\ d[1] \in DOMAIN changes'
              /\ d[2] = "blocked" => changes'[d[1]] = 3
              /\ (d[2] = "cleared" /\ <<d[1], "blocked">> \notin detected)
                    => changes'[d[1]] = 2
        /\ \A k \in DOMAIN changes' : \E d \in detected : d[1] = k]_vars

C4_Witness ==
    /\ last.op = "return"
    /\ \E k \in StrKeys : /\ <<k, "cleared">> \in detected
                          /\ <<k, "blocked">> \in detected
                          /\ k \in DOMAIN changes /\ changes[k] = 3

\* C5: a key first observed with a score above 0.4 becomes BlockedFromNow, stays so for
\* the rest of the call, is returned as BlockedFromNow and is Blocked after the reset; a
\* call during which a Blocked key has no change does not return it and keeps it Blocked.
C5_SteadyBlockedNotReported ==
    /\ []((SeededUnseen /\ Gt(last.v.blocking_general, 40)) => status[Key(last.v)] = 3)
    /\ [][RowStep =>
            \A k \in DOMAIN status : status[k] = 3 => (k \in DOMAIN status' /\ status'[k] = 3)]_vars
    /\ [][ReturnStep =>
            \A k \in DOMAIN status :
                /\ status[k] = 3 =>
                      /\ k \in DOMAIN changes' /\ changes'[k] = 3
                      /\ k \in DOMAIN status' /\ status'[k] = 1
                /\ (status[k] = 1 /\ \A d \in detected : d[1] # k) =>
                      /\ k \notin DOMAIN changes'
                      /\ k \in DOMAIN status' /\ status'[k] = 1]_vars

\* a later call has updated a Blocked key and returned without it
C5_Witness ==
    /\ last.op = "return"
    /\ \E k \in StrKeys : /\ k \in DOMAIN status /\ status[k] = 1
                          /\ k \notin DOMAIN changes
                          /\ Lt(means[k][2], 40)

\* C6: a Blocked key whose new mean falls below 0.05 becomes ClearedFromNow; it stays so
\* unless a later row of the call re-blocks it; the call then returns ClearedFromNow for
\* it and the reset removes it from the status map; the next row of that key is a first
\* observation: its mean is that row's score alone and its status follows the unseen rule.
C6_ClearedKeyReseeded ==
    /\ []((UpdatedSeen /\ last.old_status = 1 /\ Lt(NewMean, 5))
            => status[Key(last.v)] = 2)
    /\ [][RowStep =>
            \A k \in DOMAIN status : status[k] = 2 =>
                /\ k \in DOMAIN status' /\ status'[k] \in {2, 3}
                /\ status'[k] = 3 => (Key(last'.v) = k /\ Gt(means'[k][2], 40))]_vars
    /\ [][ReturnStep =>
            \A k \in DOMAIN status : status[k] = 2 =>
                /\ k \in DOMAIN changes' /\ changes'[k] = 2
                /\ k \notin DOMAIN status']_vars
    /\ []((SeededUnseen /\ last.had_mean) =>
            LET k == Key(last.v) IN
            /\ means[k] = <<last.v.measurement_start_time, last.v.blocking_general>>
            /\ status[k] = IF Gt(last.v.blocking_general, 40) THEN 3 ELSE 0)

\* a key removed by a reset is observed again, with a score that differs from its old mean
C6_Witness ==
    /\ SeededUnseen
    /\ last.had_mean
    /\ last.old_mean[2] # last.v.blocking_general
    /\ NewMean # last.v.blocking_general
    /\ Key(last.v) \in DOMAIN changes /\ changes[Key(last.v)] = 2
    /\ means[Key(last.v)][2] = last.v.blocking_general

\* C7: a row whose input is not a string leaves the status map and the mean map as they
\* were and logs no change; no key with such an input is ever tracked or returned; the
\* call goes on with its next rows.
C7_NonStringSkipped ==
    /\ [][(RowStep /\ last'.v.input.type # "str") =>
            /\ status' = status
            /\ means' = means
            /\ detected' \subseteq detected]_vars
    /\ [](\A k \in DOMAIN status \cup DOMAIN means \cup DOMAIN changes :
            k[3].type = "str")
    /\ []((last.op = "f" /\ last.v.input.type # "str" /\ nrows < MaxRows)
            => ENABLED (\E v \in Summaries : DetectRow(v)))

C7_Witness ==
    /\ last.op = "f"
    /\ last.v.input.type # "str"
    /\ row > 1
    /\ status # EmptyDict

----------------------------------------------------------------------------
(* The batching loop *)

\* the loop body ran to its end for the measurement that was pulled
BodyDone == pc = "process" /\ pc' \in {"fetch", "reap"}

\* the step handed the buffer to detect_blocking_changes
FlushStep == handed' # handed

\* C8: the buffer never holds more than 1000 summaries and holds fewer than 1000 whenever
\* the next measurement is pulled; the loop body that appends the 1000th summary hands
\* exactly 1000 summaries to the detector and empties the buffer, whatever the clock says.
C8_SizeFlush ==
    /\ [](BufLen(summaries) <= 1000)
    /\ [](pc = "fetch" => BufLen(summaries) < 1000)
    /\ [][(BodyDone /\ BufLen(summaries) = 999) =>
            /\ handed' = handed + 1000
            /\ lastflush'.len = 1000
            /\ summaries' = <<>>
            /\ measurement_cnt' = measurement_cnt]_vars

\* a flush of 1000 summaries made before the time threshold
C8_Witness ==
    /\ lastflush.len = 1000
    /\ lastflush.t < lastflush.thresh
    /\ summaries = <<>>
    /\ handed >= 1000

C10_CancelFlushesAndReaps ==
    pc = "killed" =>
        /\ measurement = NoMeasurement
        /\ summaries = <<>>
        /\ cleaned = 1

\* C11: a run that has stopped, by returning or by a cancellation, has made exactly one
\* clean_caches pass, and no pass is made while the loop is still pulling and processing.
C11_OneReaperPassOnAnyStop ==
    /\ pc \in {"done", "killed"} => cleaned = 1
    /\ pc \in {"fetch", "process"} => cleaned = 0

\* C12: a measurement with an unexpected column ends the run: the loop body that holds it
\* does not complete, nothing is appended to the buffer for it, and the run goes from it
\* to its error exit with a clean_caches pass made.
C12_UnexpectedColumnsFatal ==
    [][(pc = "process" /\ unexpected(Columns(measurement)) # {} /\ pc' \notin {pc, "killed"})
        => /\ pc' = "crashed"
           /\ summaries' = summaries
           /\ handed' = handed
           /\ cleaned' = cleaned + 1]_vars

----------------------------------------------------------------------------
(* The cache reaper *)

\* C13: after the clean_caches pass, no regular file whose last-access age at the scan
\* exceeded 259200 seconds exists any more, and every other entry is there as it was.
C13_ReaperDeletesOldFiles ==
    pc = "done" =>
        \A n \in DOMAIN cache :
            IF cache[n].kind = "file" /\ now - cache[n].st_atime > 259200
            THEN ~cache[n].exists
            ELSE cache[n].exists

----------------------------------------------------------------------------
(* The matcher and the scorer *)

\* the number of matched fingerprints of locality L in the latest run
NumMatched(L) ==
    Cardinality({i \in 1..Len(outcome.matches) : outcome.matches[i].locality = L})

\* the response gives neither a body nor headers to match
NothingToMatch(r) ==
    r.none \/ (r.body.state # "str" /\ (r.headers.state # "dict" \/ r.headers.items = <<>>))

\* C14: match_fingerprints returns for every measurement, whatever bodies and headers its
\* responses lack, and returns no match when no response has a body or headers.
C14_AbsentBodyOrHeadersNoError ==
    outcome.n > 0 =>
        /\ ~outcome.match_raised
        /\ (\A i \in 1..Len(msm.m.requests) : NothingToMatch(msm.m.requests[i]))
              => outcome.matches = <<>>

\* C15: without title_match and body_proportion, score_measurement returns; each of
\* global, country, isp and local is the number of matches of that locality, before and
\* after the fold; general is its own number of matches before the fold and the number
\* of all matches after it.
C15_BucketsCountMatches ==
    (/\ outcome.n > 0
     /\ ~outcome.match_raised
     /\ msm.m.title_match = "absent"
     /\ ~msm.m.body_proportion.present)
    => /\ ~outcome.score_raised
       /\ DOMAIN outcome.blocking = {"general", "global", "country", "isp", "local"}
       /\ \A L \in {"global", "country", "isp", "local"} :
            /\ outcome.prefold[L] = 100 * NumMatched(L)
            /\ outcome.blocking[L] = 100 * NumMatched(L)
       /\ outcome.prefold["general"] = 100 * NumMatched("general")
       /\ outcome.blocking["general"] = 100 * Len(outcome.matches)

\* two matches of one locality and one of another, folded into general
C15_Witness ==
    /\ outcome.n > 0
    /\ msm.m.title_match = "absent"
    /\ ~msm.m.body_proportion.present
    /\ outcome.blocking["country"] = 200
    /\ outcome.blocking["isp"] = 100
    /\ outcome.prefold["general"] = 0
    /\ outcome.blocking["general"] = 300

\* C16: score_measurement returns for every measurement; before the fold general is its
\* number of matches, plus 0.5 exactly when title_match is False, plus |p - 1.0| when
\* body_proportion is p; the four other buckets are their numbers of matches.
C16_TitleAndBodyProportion ==
    (outcome.n > 0 /\ ~outcome.match_raised)
    => /\ ~outcome.score_raised
       /\ outcome.prefold["general"] =
            100 * NumMatched("general")
            + (IF msm.m.title_match = "False" THEN 50 ELSE 0)
            + (IF ~msm.m.body_proportion.present THEN 0
               ELSE IF msm.m.body_proportion.val >= 100
               THEN msm.m.body_proportion.val - 100
               ELSE 100 - msm.m.body_proportion.val)
       /\ \A L \in {"global", "country", "isp", "local"} :
            outcome.prefold[L] = 100 * NumMatched(L)

\* C17: the second run of the matcher and scorer on a measurement object ends as the
\* first did, with the same five buckets.
C17_ReplayIdentical ==
    outcome.n >= 2 =>
        /\ outcome.match_raised = outcome.prev.match_raised
        /\ outcome.score_raised = outcome.prev.score_raised
        /\ outcome.blocking = outcome.prev.blocking
        /\ msm.blocking = outcome.blocking

\* a measurement scored twice, with matches and a title signal
C17_Witness ==
    /\ outcome.n = 2
    /\ msm.scored
    /\ ~outcome.match_raised /\ ~outcome.score_raised
    /\ msm.m.title_match = "False"
    /\ outcome.blocking["general"] = 350
    /\ outcome.prev.blocking["general"] = 350

----------------------------------------------------------------------------
(* The database collaborator *)

\* C18: an upsert_summary call delivers one notification exactly when it wrote a row (the
\* tid was new, or update mode is on); a call that meets an existing tid with update mode
\* off leaves the row as it was, adds one to the collision counter, delivers nothing and
\* returns; a call that brings the row already stored leaves it as it is.
C18_NotifyIffWritten ==
    dbcall.op = "upsert" =>
        /\ (Len(notified) = Len(dbcall.notified) + 1) <=> (~dbcall.existed \/ dbcall.update)
        /\ (dbcall.existed /\ ~dbcall.update) =>
              /\ table[dbcall.tid] = dbcall.old
              /\ collisions = dbcall.collisions + 1
              /\ notified = dbcall.notified
              /\ ~dbcall.raised
        /\ (dbcall.existed /\ dbcall.old = dbcall.row) => table[dbcall.tid] = dbcall.row

----------------------------------------------------------------------------
(* The maps of the detector between flushes *)

\* C19: the reset that ends a detect_blocking_changes call keeps exactly the keys that
\* were Blocked or BlockedFromNow, all as Blocked, and removes the others; at the start
\* of every call each key of the status map is Blocked.
C19_OnlyBlockedAfterReset ==
    /\ [][ReturnStep =>
            /\ DOMAIN status' = {k \in DOMAIN status : status[k] \in {1, 3}}
            /\ \A k \in DOMAIN status' : status'[k] = 1]_vars
    /\ [](row = 0 => \A k \in DOMAIN status : status[k] = 1)

\* a reset that collapsed a BlockedFromNow key and removed a key
C19_Witness ==
    /\ last.op = "return"
    /\ row = 0
    /\ \E k \in DOMAIN status : k \in DOMAIN changes /\ changes[k] = 3 /\ status[k] = 1
    /\ \E k \in DOMAIN means : k \notin DOMAIN status /\ k \notin DOMAIN changes

\* C20: after a detect_blocking_changes call the keys that have a status or a mean are
\* exactly the keys whose status is Blocked.
C20_StateOnlyForBlocked ==
    last.op = "return" =>
        DOMAIN status \cup DOMAIN means = {k \in DOMAIN status : status[k] = 1}

\* C21: after an update of an already tracked key, whatever its status was, the stored
\* mean m satisfies 2 * m = old_mean + score and the stored timestamp is the row's; the
\* old timestamp does not enter.
C21_MeanIsHalfSum ==
    UpdatedSeen =>
        LET k == Key(last.v)
            o == last.old_mean[2]
            sc == last.v.blocking_general
            m == means[k][2]
        IN  /\ last.old_status \in {0, 1, 2, 3}
            /\ means[k][1] = last.v.measurement_start_time
            /\ 2 * m[1] * (2 ^ (o[2] + sc[2]))
                 = o[1] * (2 ^ (m[2] + sc[2])) + sc[1] * (2 ^ (m[2] + o[2]))

\* an update of a BlockedFromNow key by a row with another timestamp and another score
C21_Witness ==
    /\ UpdatedSeen
    /\ last.old_status = 3
    /\ status[Key(last.v)] = 3
    /\ last.old_mean[1] # last.v.measurement_start_time
    /\ last.old_mean[2] # last.v.blocking_general
    /\ means[Key(last.v)][2] # last.old_mean[2]

----------------------------------------------------------------------------
(* The buffer of core() *)

\* C22: a flush hands over the whole buffer, the summary just appended included, and
\* leaves it empty, whatever the detector returned; no other step hands anything over
\* or removes anything from the buffer; every summary appended so far is either in the
\* buffer or was handed over, once.
C22_FlushClearsOnce ==
    /\ [][FlushStep =>
            /\ summaries' = <<>>
            /\ handed' = handed + BufLen(summaries) + 1
            /\ lastflush'.len = BufLen(summaries) + 1]_vars
    /\ [][~FlushStep =>
            \/ summaries' = summaries
            \/ BufLen(summaries') = BufLen(summaries) + 1]_vars
    /\ [](handed + BufLen(summaries) + (IF measurement = NoMeasurement THEN 0 ELSE 1)
            = measurement_cnt)

\* a second flush, whose detector call returned no change, has emptied the buffer
C22_Witness ==
    /\ last.op = "flush"
    /\ changes = EmptyDict
    /\ summaries = <<>>
    /\ lastflush.len > 1
    /\ handed > lastflush.len

\* C23: with conf.stop_after set to N, no more than N measurements are ever pulled from
\* the feed.
C23_StopAfterBoundsPulls ==
    stop_after.set => measurement_cnt <= stop_after.n

\* C24: when core() has returned, the buffer is empty and every measurement that was
\* pulled has had its summary handed to the detector.
C24_NothingLeftAtReturn ==
    pc = "done" => (summaries = <<>> /\ handed = measurement_cnt)

\* C25: every key of the status map has an entry in the mean map, in every state reached
\* by rows and resets.
C25_StatusKeysHaveMeans ==
    \A k \in DOMAIN status : k \in DOMAIN means /\ Len(means[k]) = 2

\* a tracked key was updated after a reset had removed another key from the status map
C25_Witness ==
    /\ UpdatedSeen
    /\ nrows > row
    /\ Key(last.v) \in DOMAIN status
    /\ \E k \in DOMAIN means : k \notin DOMAIN status

\* what the two maps hold for key k
EntryOf(st, mn, k) ==
    <<k \in DOMAIN st, IF k \in DOMAIN st THEN st[k] ELSE -1,
      k \in DOMAIN mn, IF k \in DOMAIN mn THEN mn[k] ELSE <<>> >>

\* C26: a row leaves the status and mean entries of every key but its own as they were,
\* and its own new entries are given by its own old entries and the row alone; the reset
\* keeps, drops and reports each key by that key's status alone and leaves the means.
C26_KeysIndependent ==
    /\ [][RowStep =>
            \A k \in AllKeys \ {Key(last'.v)} :
                EntryOf(status', means', k) = EntryOf(status, means, k)]_vars
    /\ [][(RowStep /\ last'.v.input.type = "str") =>
            LET k == Key(last'.v)
                sc == last'.v.blocking_general
                m == means'[k][2]
            IN  IF k \notin DOMAIN status
                THEN /\ m = sc
                     /\ status'[k] = IF sc[1] > 40 * (2 ^ sc[2]) THEN 3 ELSE 0
                ELSE LET o == means[k][2] IN
                     /\ 2 * m[1] * (2 ^ (o[2] + sc[2]))
                          = o[1] * (2 ^ (m[2] + sc[2])) + sc[1] * (2 ^ (m[2] + o[2]))
                     /\ status'[k] =
                          IF status[k] = 1 /\ m[1] < 5 * (2 ^ m[2]) THEN 2
                          ELSE IF status[k] \in {0, 2} /\ m[1] > 40 * (2 ^ m[2]) THEN 3
                          ELSE status[k]]_vars
    /\ [][ReturnStep =>
            /\ means' = means
            /\ \A k \in AllKeys :
                /\ k \in DOMAIN status' <=> (k \in DOMAIN status /\ status[k] \in {1, 3})
                /\ k \in DOMAIN changes' <=> (k \in DOMAIN status /\ status[k] \in {2, 3})
                /\ k \in DOMAIN changes' => changes'[k] = status[k]]_vars

\* a row changed the status of its key while another key was tracked with another status
C26_Witness ==
    /\ UpdatedSeen
    /\ status[Key(last.v)] # last.old_status
    /\ \E k \in DOMAIN status : k # Key(last.v) /\ status[k] # status[Key(last.v)]

====
